---- MODULE Spec2Model ----
(***************************************************************************)
(* phraser: the rhythmic event-generation core of src/app/index.ts.        *)
(*                                                                         *)
(* The program is a set of RxJS pipelines driven by one interval timer.    *)
(* The model keeps the objects the pipelines keep:                         *)
(*   - the period streams made by createPeriodStream, each with the state  *)
(*     of its share() (observers, live interval timer) and of its scan     *)
(*     (the accumulator),                                                  *)
(*   - the three subscriptions that consume them: the constructor's        *)
(*     always-on noteEventStream$.subscribe(), and the click and note      *)
(*     subscriptions made by start(),                                      *)
(*   - the form controls and this.settings.                                *)
(* JavaScript runs one callback at a time: a DOM event or a shareReplay    *)
(* emission is handed to its listeners one after the other (dispatch), and *)
(* no timer callback runs until the last listener has returned.            *)
(***************************************************************************)
EXTENDS Integers, Sequences, FiniteSets, TLC

\* ---------------------------------------------------------------- bounds
\* Ticks of one clock lifetime.
MaxTicks == 9
\* Settings change events (notes, transpose, bpm, subdivision) in a run.
MaxChanges == 1
\* Tick indices the phrase gate and the click filter are probed with.
MaxIndex == 71

\* ------------------------------------------------------ program constants
Quarter == 1
Eighth == 2
Sixteenth == 4
Subdivision == {Quarter, Eighth, Sixteenth}

barLength == 4

DefaultBpm == 80
DefaultTranspose == 0
DefaultMaxDuration == 2
DefaultMinDuration == 1
DefaultNotes == {60, 62, 63}

\* Values the form controls can take (the page's inputs).
BpmValues == {DefaultBpm, 120}
TransposeValues == {DefaultTranspose, -60}
NoteValues == DefaultNotes

\* ------------------------------------------------------ JavaScript values
Num(n) == [t |-> "number", v |-> n]
NaN == [t |-> "NaN", v |-> 0]
Undefined == [t |-> "undefined", v |-> 0]
\* ToBoolean of a number or undefined: 0, NaN and undefined are falsy.
Truthy(x) == x.t = "number" /\ x.v # 0

\* ------------------------------------------------------------ subscribers
Always == "always"
Click == "click"
Note == "note"
Subs == {Always, Click, Note}
NoteSubs == {Always, Note}

VARIABLES
    settings,   \* this.settings, loaded once by the constructor
    dom,        \* the form controls: bpm, subdivision, transpose, notes
    playing,    \* the play checkbox
    audio,      \* this.audio is defined
    streams,    \* the period streams made so far; the last one is the
                \* value shareReplay(1) holds
    subs,       \* the three subscriptions
    dispatch,   \* listeners still to be called for the event being handled
    changes,    \* settings change events so far
    rebuilt,    \* bpm or subdivision changed while playing, no tick since
    tick,       \* what the last timer callback did
    step,       \* what the last listener call did
    session,    \* this play: no tick since start(), and the last pitch handed
                \* to the subscriber of start()
    probe       \* a pulse handed to the filters alone, and what they said

vars == <<settings, dom, playing, audio, streams, subs, dispatch, changes,
          rebuilt, tick, step, session, probe>>

\* --------------------------------------------------------- createPeriodStream
\* Mutant: a seed that is a period of two ticks just begun.
SeedStarted(subdivision) ==
    [absoluteSubdivisionIndex |-> 0,
     subdivisionType |-> subdivision,
     current |-> [duration |-> 2, currPeriodIndex |-> 0]]

\* The seed of the scan.
Seed(subdivision) ==
    [absoluteSubdivisionIndex |-> 0,
     subdivisionType |-> subdivision,
     current |-> [duration |-> 0, currPeriodIndex |-> 0]]

\* The Observable createPeriodStream returns, not yet subscribed: share() has
\* no observer and no interval timer runs.
createPeriodStream(bpm, subdivision, maxDuration, minDuration) ==
    [bpm |-> bpm,
     subdivisionType |-> subdivision,
     maxDuration |-> maxDuration,
     minDuration |-> minDuration,
     observers |-> <<>>,
     timer |-> 0,
     count |-> 0,
     note |-> Seed(subdivision)]

\* A period stream nothing refers to any more.
NoStream == createPeriodStream(0, 0, 0, 0)

\* Mutant: maxDuration of two phrases.
NewPeriodStreamLong(bpm, subdivision) ==
    createPeriodStream(bpm, subdivision, subdivision * barLength * 2, 1)

\* The map of periodStream$$.
NewPeriodStream(bpm, subdivision) ==
    createPeriodStream(bpm, subdivision, (subdivision * 2) - 1, 1)

\* Mutant: > for >= in the completion test.
IsCompleteStrict(note) ==
    note.current.currPeriodIndex + 1 > note.current.duration

IsComplete(note) ==
    note.current.currPeriodIndex + 1 >= note.current.duration

\* Mutant: Math.round for Math.floor, which can reach maxDuration + 1.
RandomDurationRounded(maxDuration, minDuration) == minDuration..(maxDuration + 1)

\* The outcomes of Math.floor(Math.random() * (max - min + 1) + min), the
\* random number being in [0, 1): with max < min the factor is zero or
\* negative, and the outcomes are max + 1 .. min.
RandomDuration(maxDuration, minDuration) ==
    IF maxDuration >= minDuration
    THEN minDuration..maxDuration
    ELSE (maxDuration + 1)..minDuration

\* Mutant: the position is copied, not incremented.
ScanReducerNoIncrement(note, i, subdivision, d) ==
    [absoluteSubdivisionIndex |-> i,
     subdivisionType |-> subdivision,
     current |->
        IF IsComplete(note)
        THEN [duration |-> d, currPeriodIndex |-> 0]
        ELSE note.current]

\* The scan reducer; d is the outcome of the random draw, used when the
\* period is complete.
ScanReducer(note, i, subdivision, d) ==
    [absoluteSubdivisionIndex |-> i,
     subdivisionType |-> subdivision,
     current |->
        IF IsComplete(note)
        THEN [duration |-> d, currPeriodIndex |-> 0]
        ELSE [note.current EXCEPT !.currPeriodIndex = note.current.currPeriodIndex + 1]]

\* ------------------------------------------------------------------ share()
Remove(seq, s) == SelectSeq(seq, LAMBDA x : x # s)

\* Subscribing to share(): the first observer subscribes the source, which
\* starts a new interval timer and a new scan from the seed.
ShareSubscribe(st, s) ==
    IF st.observers = <<>>
    THEN [st EXCEPT !.observers = <<s>>, !.timer = 1, !.count = 0,
                    !.note = Seed(st.subdivisionType)]
    ELSE [st EXCEPT !.observers = Append(@, s)]

\* Mutant: no reference count; the source is unsubscribed as soon as one
\* observer leaves.
ShareUnsubscribeEager(st, s) ==
    [st EXCEPT !.observers = Remove(@, s), !.timer = 0, !.count = 0,
               !.note = Seed(st.subdivisionType)]

\* Unsubscribing from share(): when the last observer leaves, the source is
\* unsubscribed, which clears the interval timer and drops the scan's state.
ShareUnsubscribe(st, s) ==
    IF Remove(st.observers, s) = <<>>
    THEN [st EXCEPT !.observers = <<>>, !.timer = 0, !.count = 0,
                    !.note = Seed(st.subdivisionType)]
    ELSE [st EXCEPT !.observers = Remove(@, s)]

\* Mutant: the first stream is kept and replayed.
ReplayFirst == IF streams = <<>> THEN 0 ELSE 1

\* The stream shareReplay(1) replays to a new subscriber.
Replay == Len(streams)

\* streams after subscriber s left stream id. A stream that is no longer the
\* replayed one and has no observer is unreachable.
Unsubscribed(ss, id, s) ==
    IF id = 0 THEN ss
    ELSE LET st == ShareUnsubscribe(ss[id], s)
         IN [ss EXCEPT ![id] = IF id # Len(ss) /\ st.observers = <<>>
                                THEN NoStream ELSE st]

Subscribed(ss, id, s) == [ss EXCEPT ![id] = ShareSubscribe(ss[id], s)]

\* switchMap: the inner subscription is unsubscribed, then the new inner
\* Observable is subscribed; old = 0 when there is no inner subscription.
SwitchMap(ss, old, new, s) == Subscribed(Unsubscribed(ss, old, s), new, s)

\* The interval timers alive.
Alive(ss) == {id \in 1..Len(ss) : ss[id].timer # 0}

\* ------------------------------------------------------ createNoteEventStream
\* Mutant: the phrase length without the subdivision.
PhraseFilterBarOnly(pulse) ==
    (pulse.absoluteSubdivisionIndex \div barLength) % 2 = 0

\* silence every second phrase
PhraseFilter(pulse) ==
    LET phraseLength == pulse.subdivisionType * barLength
    IN (pulse.absoluteSubdivisionIndex \div phraseLength) % 2 = 0

\* Mutant: <= for ===, which passes every period.
PeriodFilterLoose(pulse) ==
    pulse.current.currPeriodIndex + 1 <= pulse.current.duration

\* "filter to only start of periods"
PeriodFilter(pulse) ==
    pulse.current.currPeriodIndex + 1 = pulse.current.duration

\* Mutant: Math.round for Math.floor; the index can be notes.length.
RandomNoteRounded(notes, transpose) ==
    {Num(n + transpose) : n \in notes} \cup {NaN}

\* The outcomes of notes[Math.floor(Math.random() * notes.length)] + transpose.
\* With no note, notes[0] is undefined and undefined + transpose is NaN.
RandomNote(notes, transpose) ==
    IF notes = {} THEN {NaN} ELSE {Num(n + transpose) : n \in notes}

EventSeed == [curr |-> Undefined, previous |-> Undefined]

NoteScan(event, curr) == [curr |-> curr, previous |-> event.curr]

\* ------------------------------------------------------------- clickStream$
\* Mutant: the clicks are taken after the phrase filter.
ClickFilterGated(period) ==
    /\ PhraseFilter(period)
    /\ period.absoluteSubdivisionIndex % period.subdivisionType = 0

\* Mutant: the click on the last subdivision of the beat.
ClickFilterOffbeat(period) ==
    period.absoluteSubdivisionIndex % period.subdivisionType
        = period.subdivisionType - 1

ClickFilter(period) ==
    period.absoluteSubdivisionIndex % period.subdivisionType = 0

\* ----------------------------------------------------------------- playNote
\* Whether playNote(note) calls audio.play.
PlayNote(hasAudio, note) == hasAudio /\ Truthy(note)

\* -------------------------------------------------------------- loadSettings
\* The settings loadSettings returns on a first run, when localStorage holds
\* none of the keys.
DefaultSettings ==
    [bpm |-> DefaultBpm, subdivision |-> Eighth,
     maxDuration |-> DefaultMaxDuration, minDuration |-> DefaultMinDuration,
     transpose |-> DefaultTranspose, notes |-> DefaultNotes]

\* --------------------------------------------------------------------- state
NoSub == [active |-> FALSE, notes |-> {}, transpose |-> 0, periodStream |-> 0,
          event |-> EventSeed]

\* A subscription to noteEventStream$: combineLatest starts from the
\* startWith values, which are this.settings, and from the replayed stream.
\* The constructor's subscription passes no observer: the values of its map
\* and scan are never read, and the model keeps its event at the seed.
NoteSubscription(id) ==
    [active |-> TRUE, notes |-> settings.notes, transpose |-> settings.transpose,
     periodStream |-> id, event |-> EventSeed]

\* A subscription to clickStream$.
ClickSubscription(id) == [NoSub EXCEPT !.active = TRUE, !.periodStream = id]

NoTick ==
    [kind |-> "none", stream |-> 0, playing |-> FALSE, afterRebuild |-> FALSE,
     afterStart |-> FALSE, last |-> Undefined,
     period |-> Seed(0), isComplete |-> FALSE, draws |-> 0,
     seen |-> [s \in Subs |-> <<>>],
     emits |-> [s \in NoteSubs |-> FALSE],
     event |-> <<>>, clicks |-> 0, plays |-> <<>>]

NoStep ==
    [kind |-> "none", sub |-> "", field |-> "", playing |-> FALSE,
     cancelled |-> FALSE, started |-> FALSE,
     before |-> NoStream, after |-> NoStream]

NoSession == [started |-> FALSE, curr |-> Undefined]

\* --------------------------------------------------------------- loadSettings
\* localStorage.getItem(key) is <<>> for null and <<text>> for a string.
Keys == {"bpm", "subdivision", "maxDuration", "minDuration", "transpose", "notes"}

NoItems == [k \in Keys |-> <<>>]

\* x || default takes the default when x is null or the empty string.
Falsy(item) == item = <<>> \/ item[1] = ""

\* The texts unary + converts to a number; it gives NaN for any other.
Numeral ==
    ("" :> 0) @@ ("0" :> 0) @@ ("1" :> 1) @@ ("2" :> 2) @@ ("4" :> 4)
    @@ ("80" :> 80) @@ ("120" :> 120) @@ ("-60" :> -60)

ToNumber(text) == IF text \in DOMAIN Numeral THEN Num(Numeral[text]) ELSE NaN

\* +(localStorage.getItem(key) || default)
StoredNumber(item, default) ==
    IF Falsy(item) THEN Num(default) ELSE ToNumber(item[1])

Array(notes) == [t |-> "array", a |-> notes]
SyntaxError == [t |-> "SyntaxError", a |-> {}]

\* JSON.parse: an array text gives the array, a number text the number, and
\* any other text makes it throw.
JSONparse(text) ==
    CASE text = "[60, 62, 63]" -> Array({60, 62, 63})
      [] text = "[60]" -> Array({60})
      [] text = "[]" -> Array({})
      [] text = "60" -> Num(60)
      [] OTHER -> SyntaxError

DefaultNotesText == "[60, 62, 63]"

Thrown ==
    [thrown |-> TRUE, bpm |-> Undefined, subdivision |-> Undefined,
     maxDuration |-> Undefined, minDuration |-> Undefined,
     transpose |-> Undefined, notes |-> Undefined]

\* loadSettings(): the object it returns, or Thrown when JSON.parse throws.
loadSettings(items) ==
    LET notes == JSONparse(IF Falsy(items["notes"]) THEN DefaultNotesText
                           ELSE items["notes"][1])
    IN IF notes = SyntaxError THEN Thrown
       ELSE [thrown |-> FALSE,
             bpm |-> StoredNumber(items["bpm"], DefaultBpm),
             subdivision |-> StoredNumber(items["subdivision"], Eighth),
             maxDuration |-> StoredNumber(items["maxDuration"], DefaultMaxDuration),
             minDuration |-> StoredNumber(items["minDuration"], DefaultMinDuration),
             transpose |-> StoredNumber(items["transpose"], DefaultTranspose),
             notes |-> notes]

NoProbe ==
    [pulse |-> Seed(0), applied |-> FALSE, audible |-> FALSE, click |-> FALSE,
     items |-> NoItems, loaded |-> Thrown,
     heard |-> FALSE, clicks |-> 0]

\* The constructor: settings are loaded, the controls are set from them, and
\* noteEventStream$.subscribe() subscribes the first period stream, which
\* starts its interval timer.
Construct(loaded) ==
    /\ settings = loaded
    /\ dom = settings
    /\ playing = FALSE
    /\ audio = FALSE
    /\ streams = <<ShareSubscribe(NewPeriodStream(settings.bpm, settings.subdivision),
                                  Always)>>
    /\ subs = [s \in Subs |-> IF s = Always THEN NoteSubscription(1) ELSE NoSub]
    /\ dispatch = <<>>
    /\ changes = 0
    /\ rebuilt = FALSE
    /\ tick = NoTick
    /\ step = NoStep
    /\ session = NoSession

\* The first run: nothing is stored and loadSettings() gives the defaults.
Constructed == Construct(DefaultSettings)

Init ==
    /\ Constructed
    /\ probe = NoProbe

\* ------------------------------------------------------------ start / stop
\* start(): clickStream$ is subscribed, then noteEventStream$. Both get the
\* replayed period stream at once and subscribe to it.
Start ==
    /\ dispatch = <<>>
    /\ ~playing
    /\ playing' = TRUE
    /\ audio' = TRUE
    /\ streams' = SwitchMap(SwitchMap(streams, 0, Replay, Click), 0, Replay, Note)
    /\ subs' = [subs EXCEPT ![Click] = ClickSubscription(Replay),
                            ![Note] = NoteSubscription(Replay)]
    /\ session' = [started |-> TRUE, curr |-> Undefined]
    /\ tick' = NoTick
    /\ step' = NoStep
    /\ UNCHANGED <<probe, settings, dom, dispatch, changes, rebuilt>>

\* Mutant: stop() unsubscribes the note subscription only.
StopNoteOnly ==
    /\ dispatch = <<>>
    /\ playing
    /\ playing' = FALSE
    /\ streams' = Unsubscribed(streams, subs[Note].periodStream, Note)
    /\ subs' = [subs EXCEPT ![Note] = NoSub]
    /\ rebuilt' = FALSE
    /\ session' = NoSession
    /\ tick' = NoTick
    /\ step' = NoStep
    /\ UNCHANGED <<probe, settings, dom, audio, dispatch, changes>>

\* Mutant: stop() unsubscribes the click subscription only.
StopClickOnly ==
    /\ dispatch = <<>>
    /\ playing
    /\ playing' = FALSE
    /\ streams' = Unsubscribed(streams, subs[Click].periodStream, Click)
    /\ subs' = [subs EXCEPT ![Click] = NoSub]
    /\ rebuilt' = FALSE
    /\ session' = NoSession
    /\ tick' = NoTick
    /\ step' = NoStep
    /\ UNCHANGED <<probe, settings, dom, audio, dispatch, changes>>

\* stop(): the note subscription is unsubscribed, then the click one.
Stop ==
    /\ dispatch = <<>>
    /\ playing
    /\ playing' = FALSE
    /\ streams' = Unsubscribed(Unsubscribed(streams, subs[Note].periodStream, Note),
                               subs[Click].periodStream, Click)
    /\ subs' = [subs EXCEPT ![Click] = NoSub, ![Note] = NoSub]
    /\ rebuilt' = FALSE
    /\ session' = NoSession
    /\ tick' = NoTick
    /\ step' = NoStep
    /\ UNCHANGED <<probe, settings, dom, audio, dispatch, changes>>

\* ------------------------------------------------------------ change events
\* The listeners of a control's change event, in the order they were added:
\* the constructor's subscription, then the one start() made.
NoteListeners(field) ==
    <<[sub |-> Always, field |-> field]>>
    \o (IF playing THEN <<[sub |-> Note, field |-> field]>> ELSE <<>>)

\* Mutant: clickStream$ does not follow periodStream$$ and keeps the period
\* stream it first subscribed.
ReplayObserversNoClick ==
    <<[sub |-> Always, field |-> "periodStream"]>>
    \o (IF playing THEN <<[sub |-> Note, field |-> "periodStream"]>> ELSE <<>>)

\* The observers of shareReplay(1), in the order they subscribed.
ReplayObservers ==
    <<[sub |-> Always, field |-> "periodStream"]>>
    \o (IF playing
        THEN <<[sub |-> Click, field |-> "periodStream"],
               [sub |-> Note, field |-> "periodStream"]>>
        ELSE <<>>)

\* A notes checkbox is toggled.
NotesChange(n) ==
    /\ dispatch = <<>>
    /\ changes < MaxChanges
    /\ dom' = [dom EXCEPT !.notes = IF n \in @ THEN @ \ {n} ELSE @ \cup {n}]
    /\ dispatch' = NoteListeners("notes")
    /\ changes' = changes + 1
    /\ tick' = NoTick
    /\ step' = NoStep
    /\ UNCHANGED <<probe, settings, playing, audio, streams, subs, rebuilt,
                   session>>

\* The transpose input is changed.
TransposeChange(t) ==
    /\ dispatch = <<>>
    /\ changes < MaxChanges
    /\ t # dom.transpose
    /\ dom' = [dom EXCEPT !.transpose = t]
    /\ dispatch' = NoteListeners("transpose")
    /\ changes' = changes + 1
    /\ tick' = NoTick
    /\ step' = NoStep
    /\ UNCHANGED <<probe, settings, playing, audio, streams, subs, rebuilt,
                   session>>

\* bpm$ or subdivision$ emits: combineLatest emits, map makes a new period
\* stream and shareReplay hands it to its observers.
Rebuild(bpm, subdivision) ==
    /\ dispatch = <<>>
    /\ changes < MaxChanges
    /\ dom' = [dom EXCEPT !.bpm = bpm, !.subdivision = subdivision]
    /\ streams' = Append(streams, NewPeriodStream(bpm, subdivision))
    /\ dispatch' = ReplayObservers
    /\ changes' = changes + 1
    /\ rebuilt' = playing
    /\ tick' = NoTick
    /\ step' = NoStep
    /\ UNCHANGED <<probe, settings, playing, audio, subs, session>>

\* The bpm input is changed.
BpmChange(bpm) ==
    /\ bpm # dom.bpm
    /\ Rebuild(bpm, dom.subdivision)

\* Another subdivision radio button is checked.
SubdivisionChange(subdivision) ==
    /\ subdivision # dom.subdivision
    /\ Rebuild(dom.bpm, subdivision)

\* The next listener is called: its combineLatest takes the new value and
\* emits, and its switchMap switches to the Observable made from it.
Deliver ==
    /\ dispatch # <<>>
    /\ LET s == Head(dispatch).sub
           field == Head(dispatch).field
           old == subs[s].periodStream
           new == IF field = "periodStream" THEN Replay ELSE old
           left == Unsubscribed(streams, old, s)
       IN /\ streams' = SwitchMap(streams, old, new, s)
          /\ subs' = [subs EXCEPT ![s] =
                [@ EXCEPT !.notes = IF field = "notes" THEN dom.notes ELSE @,
                          !.transpose = IF field = "transpose" THEN dom.transpose ELSE @,
                          !.periodStream = new,
                          !.event = EventSeed]]
          /\ step' = [kind |-> "deliver", sub |-> s, field |-> field,
                      playing |-> playing,
                      cancelled |-> Alive(left) # Alive(streams),
                      started |-> Alive(streams') # Alive(left),
                      before |-> streams[old],
                      after |-> streams'[new]]
    /\ dispatch' = Tail(dispatch)
    /\ tick' = NoTick
    /\ UNCHANGED <<probe, settings, dom, playing, audio, changes, rebuilt,
                   session>>

\* ---------------------------------------------------------------- the timer
Observes(st, s) == \E k \in 1..Len(st.observers) : st.observers[k] = s

\* Mutant: the value reaches the first observer only.
MulticastFirst(st, s, period) ==
    IF st.observers # <<>> /\ st.observers[1] = s THEN <<period>> ELSE <<>>

\* What share()'s subject hands to observer s for a value of the scan: the
\* value once for each time s is in the list of observers.
Multicast(st, s, period) ==
    [k \in 1..Cardinality({j \in 1..Len(st.observers) : st.observers[j] = s})
        |-> period]

\* Math.random() is called on the branch that uses it only: the outcomes of
\* a draw when it is made, and one placeholder when it is not.
Draws(made, outcomes) == IF made THEN outcomes ELSE {Undefined}

\* The interval timer of stream id fires: scan reduces, share() hands the
\* period to its observers, each runs its pipeline. The timer is followed for
\* limit ticks.
TimerFires(id, limit) ==
    /\ dispatch = <<>>
    /\ streams[id].timer # 0
    /\ streams[id].count < limit
    /\ LET st == streams[id]
       IN \E d \in Draws(IsComplete(st.note),
                          RandomDuration(st.maxDuration, st.minDuration)) :
          LET period == ScanReducer(st.note, st.count, st.subdivisionType, d)
              seen == [s \in Subs |-> Multicast(st, s, period)]
              emits == [s \in NoteSubs |->
                          /\ seen[s] # <<>>
                          /\ PhraseFilter(seen[s][1])
                          /\ PeriodFilter(seen[s][1])]
          IN \E curr \in Draws(emits[Note], RandomNote(subs[Note].notes,
                                                       subs[Note].transpose)) :
          LET event == IF emits[Note]
                       THEN <<NoteScan(subs[Note].event, curr)>> ELSE <<>>
          IN /\ streams' = [streams EXCEPT ![id].count = @ + 1, ![id].note = period]
             /\ subs' = [subs EXCEPT ![Note].event =
                            IF emits[Note] THEN event[1] ELSE @]
             /\ tick' = [kind |-> "tick", stream |-> id,
                         playing |-> playing, afterRebuild |-> rebuilt,
                         afterStart |-> session.started,
                         last |-> session.curr,
                         period |-> period,
                         isComplete |-> IsComplete(st.note),
                         draws |-> IF IsComplete(st.note) THEN 1 ELSE 0,
                         seen |-> seen,
                         emits |-> emits,
                         event |-> event,
                         clicks |-> Len(SelectSeq(seen[Click], ClickFilter)),
                         plays |-> IF event # <<>> /\ PlayNote(audio, event[1].curr)
                                   THEN [k \in 1..Len(seen[Note]) |-> event[1].curr]
                                   ELSE <<>>]
             /\ session' = IF playing
                           THEN [started |-> FALSE,
                                 curr |-> IF event # <<>> THEN event[1].curr
                                          ELSE session.curr]
                           ELSE session
    /\ rebuilt' = FALSE
    /\ step' = NoStep
    /\ UNCHANGED <<settings, dom, playing, audio, dispatch, changes>>

Tick(id) ==
    /\ TimerFires(id, MaxTicks)
    /\ UNCHANGED probe

Next ==
    \/ Start
    \/ Stop
    \/ \E n \in NoteValues : NotesChange(n)
    \/ \E t \in TransposeValues : TransposeChange(t)
    \/ \E bpm \in BpmValues : BpmChange(bpm)
    \/ \E subdivision \in Subdivision : SubdivisionChange(subdivision)
    \/ Deliver
    \/ \E id \in 1..Len(streams) : Tick(id)

Spec == Init /\ [][Next]_vars

\* A later run: the page was left with note 60 alone selected, so that
\* localStorage holds notes = '[60]' and loadSettings() parses it.
StoredOneNote == [DefaultSettings EXCEPT !.notes = {60}]

InitOneNote ==
    /\ Construct(StoredOneNote)
    /\ probe = NoProbe

SpecOneNote == InitOneNote /\ [][Next]_vars

\* ------------------------------------------- the Main with duration inputs
\* The earlier Main (src/unnamed/part_002) has a max-duration and a
\* min-duration input, its createPeriodStream has no share(), and its
\* constructor subscribes nothing. streams[1] is the Observable shareReplay(1)
\* holds, streams[2] and streams[3] are the click and the note subscription's
\* own run of it.
DurationValues == {1, 2, 3}

\* Subscribing to interval + scan: a timer and a scan of the subscriber's own.
Subscribe(st, s) ==
    [st EXCEPT !.observers = <<s>>, !.timer = 1, !.count = 0,
               !.note = Seed(st.subdivisionType)]

ConstructedUnshared ==
    /\ settings = DefaultSettings
    /\ dom = settings
    /\ playing = FALSE
    /\ audio = FALSE
    /\ streams = <<>>
    /\ subs = [s \in Subs |-> NoSub]
    /\ dispatch = <<>>
    /\ changes = 0
    /\ rebuilt = FALSE
    /\ tick = NoTick
    /\ step = NoStep
    /\ session = NoSession
    /\ probe = NoProbe

\* start(): the first subscription to periodStream$$ subscribes combineLatest,
\* whose inputs start with the loaded settings; later ones get the replayed
\* Observable. The click and the note subscription each subscribe it.
StartUnshared ==
    /\ ~playing
    /\ playing' = TRUE
    /\ audio' = TRUE
    /\ LET built == IF streams = <<>>
                    THEN createPeriodStream(settings.bpm, settings.subdivision,
                                            settings.maxDuration,
                                            settings.minDuration)
                    ELSE streams[1]
       IN streams' = <<built, Subscribe(built, Click), Subscribe(built, Note)>>
    /\ subs' = [subs EXCEPT ![Click] = ClickSubscription(2),
                            ![Note] = NoteSubscription(3)]
    /\ tick' = NoTick
    /\ UNCHANGED <<probe, settings, dom, dispatch, changes, rebuilt, step,
                   session>>

StopUnshared ==
    /\ playing
    /\ playing' = FALSE
    /\ streams' = <<streams[1], NoStream, NoStream>>
    /\ subs' = [subs EXCEPT ![Click] = NoSub, ![Note] = NoSub]
    /\ tick' = NoTick
    /\ UNCHANGED <<probe, settings, dom, audio, dispatch, changes, rebuilt,
                   step, session>>

\* maxDuration$ or minDuration$ emits, once periodStream$$ is subscribed:
\* combineLatest emits, map calls createPeriodStream with the four latest
\* values, and each switchMap leaves its run for one of the new Observable.
DurationsChange(maxDuration, minDuration) ==
    /\ changes < MaxChanges
    /\ changes' = changes + 1
    /\ dom' = [dom EXCEPT !.maxDuration = maxDuration,
                          !.minDuration = minDuration]
    /\ streams' =
          IF streams = <<>> THEN streams
          ELSE LET built == createPeriodStream(streams[1].bpm,
                                               streams[1].subdivisionType,
                                               maxDuration, minDuration)
               IN <<built,
                    IF playing THEN Subscribe(built, Click) ELSE NoStream,
                    IF playing THEN Subscribe(built, Note) ELSE NoStream>>
    /\ tick' = NoTick
    /\ UNCHANGED <<probe, settings, playing, audio, subs, dispatch, rebuilt,
                   step, session>>

\* The max-duration input is changed.
MaxDurationChange(maxDuration) ==
    /\ maxDuration # dom.maxDuration
    /\ DurationsChange(maxDuration,
                       IF streams = <<>> THEN dom.minDuration
                       ELSE streams[1].minDuration)

\* The min-duration input is changed.
MinDurationChange(minDuration) ==
    /\ minDuration # dom.minDuration
    /\ DurationsChange(IF streams = <<>> THEN dom.maxDuration
                       ELSE streams[1].maxDuration,
                       minDuration)

\* The interval timer of a subscription's run fires and its scan reduces.
TickUnshared(id) ==
    /\ streams[id].timer # 0
    /\ streams[id].count < MaxTicks
    /\ LET st == streams[id]
       IN \E d \in Draws(IsComplete(st.note),
                          RandomDuration(st.maxDuration, st.minDuration)) :
          LET period == ScanReducer(st.note, st.count, st.subdivisionType, d)
              seen == [s \in Subs |-> Multicast(st, s, period)]
          IN /\ streams' = [streams EXCEPT ![id].count = @ + 1, ![id].note = period]
             /\ tick' = [NoTick EXCEPT
                            !.kind = "tick", !.stream = id, !.playing = playing,
                            !.period = period,
                            !.isComplete = IsComplete(st.note),
                            !.draws = IF IsComplete(st.note) THEN 1 ELSE 0,
                            !.seen = seen,
                            !.clicks = Len(SelectSeq(seen[Click], ClickFilter))]
    /\ UNCHANGED <<probe, settings, dom, playing, audio, subs, dispatch, changes,
                   rebuilt, step, session>>

NextUnshared ==
    \/ StartUnshared
    \/ StopUnshared
    \/ \E v \in DurationValues : MaxDurationChange(v)
    \/ \E v \in DurationValues : MinDurationChange(v)
    \/ \E id \in 1..Len(streams) : TickUnshared(id)

SpecUnshared == ConstructedUnshared /\ [][NextUnshared]_vars

\* ------------------------------------------------- the filters on their own
\* The phrase filter and the click filter read a pulse's index and
\* subdivision only. Here they are applied to every pulse up to MaxIndex.
Pulse(i, subdivision) == [Seed(subdivision) EXCEPT !.absoluteSubdivisionIndex = i]

FiltersInit ==
    /\ Constructed
    /\ probe \in {[NoProbe EXCEPT !.pulse = Pulse(i, s)] :
                     i \in 0..MaxIndex, s \in Subdivision}

ApplyFilters ==
    /\ ~probe.applied
    /\ probe' = [probe EXCEPT !.applied = TRUE,
                              !.audible = PhraseFilter(probe.pulse),
                              !.click = ClickFilter(probe.pulse)]
    /\ UNCHANGED <<settings, dom, playing, audio, streams, subs, dispatch,
                   changes, rebuilt, tick, step, session>>

SpecFilters == FiltersInit /\ [][ApplyFilters]_vars

\* ------------------------------------------------------- one play, followed
\* The state after start() on a clock that has not ticked yet: the page is
\* loaded, the subdivision is changed or left as it is, and play is pressed.
\* From there the timer is followed for MaxIndex + 1 ticks with no other
\* event, and probe keeps what the current phrase has had so far: whether a
\* NoteEvent was handed to the subscriber of start(), and the click() calls.
Playing(subdivision) ==
    LET first == <<ShareSubscribe(NewPeriodStream(DefaultBpm, Eighth), Always)>>
        chosen == IF subdivision = Eighth THEN first
                  ELSE SwitchMap(Append(first, NewPeriodStream(DefaultBpm, subdivision)),
                                 1, 2, Always)
        id == Len(chosen)
    IN /\ settings = DefaultSettings
       /\ dom = [settings EXCEPT !.subdivision = subdivision]
       /\ playing = TRUE
       /\ audio = TRUE
       /\ streams = SwitchMap(SwitchMap(chosen, 0, id, Click), 0, id, Note)
       /\ subs = [s \in Subs |-> IF s = Click THEN ClickSubscription(id)
                                 ELSE NoteSubscription(id)]
       /\ dispatch = <<>>
       /\ changes = id - 1
       /\ rebuilt = FALSE
       /\ tick = NoTick
       /\ step = NoStep
       /\ session = [started |-> TRUE, curr |-> Undefined]
       /\ probe = NoProbe

PlayInit == \E subdivision \in Subdivision : Playing(subdivision)

PlayTick(id) ==
    /\ TimerFires(id, MaxIndex + 1)
    /\ LET p == tick'.period
           first == p.absoluteSubdivisionIndex % (p.subdivisionType * barLength) = 0
       IN probe' = [probe EXCEPT
                       !.heard = (tick'.event # <<>>) \/ (~first /\ @),
                       !.clicks = tick'.clicks + (IF first THEN 0 ELSE @)]

SpecPlay == PlayInit /\ [][\E id \in 1..Len(streams) : PlayTick(id)]_vars

\* ------------------------------------------------------ loadSettings alone
\* What localStorage may hold when the page is loaded: nothing, the empty
\* string, a text the page stored, or a text it never stores.
StoredItems ==
    [bpm |-> {<<>>, <<"">>, <<"120">>, <<"abc">>},
     subdivision |-> {<<>>, <<"4">>, <<"abc">>},
     maxDuration |-> {<<>>},
     minDuration |-> {<<>>},
     transpose |-> {<<>>, <<"0">>, <<"-60">>, <<"abc">>},
     notes |-> {<<>>, <<"[60]">>, <<"[]">>, <<"60">>, <<"[60,">>}]

LoadInit ==
    /\ Constructed
    /\ probe \in {[NoProbe EXCEPT !.items = items] :
                     items \in {f \in [Keys -> UNION {StoredItems[k] : k \in Keys}] :
                                  \A k \in Keys : f[k] \in StoredItems[k]}}

ApplyLoadSettings ==
    /\ ~probe.applied
    /\ probe' = [probe EXCEPT !.applied = TRUE,
                              !.loaded = loadSettings(probe.items)]
    /\ UNCHANGED <<settings, dom, playing, audio, streams, subs, dispatch,
                   changes, rebuilt, tick, step, session>>

SpecLoad == LoadInit /\ [][ApplyLoadSettings]_vars

\* ==================================================================== claims
Ticked == tick.kind = "tick"

\* Phrase parity written from the period of the gate: a tick is audible when
\* it falls in the first subdivision * 4 ticks of a run of 2 * subdivision * 4.
InAudibleHalf(i, subdivision) == i % (2 * subdivision * 4) < subdivision * 4

\* C1: after every tick transition of the scan reducer, position < duration
\* and minDuration <= duration <= maxDuration, with minDuration = 1 and
\* maxDuration = 2 * subdivision - 1, for every subdivision and every draw.
C1_PositionBelowDuration ==
    Ticked =>
        LET p == tick.period
            st == streams[tick.stream]
        IN /\ p = st.note
           /\ p.subdivisionType \in Subdivision
           /\ st.minDuration = 1
           /\ st.maxDuration = 2 * p.subdivisionType - 1
           /\ p.current.currPeriodIndex >= 0
           /\ p.current.currPeriodIndex < p.current.duration
           /\ st.minDuration <= p.current.duration
           /\ p.current.duration <= st.maxDuration

C1_Witness ==
    /\ Ticked
    /\ tick.period.subdivisionType = Sixteenth
    /\ tick.period.current.duration = 7
    /\ tick.period.current.currPeriodIndex = 6

\* C2: the phrase filter passes tick i iff floor(i / (S * 4)) mod 2 = 0, so
\* audibility has period 2 * S * 4, audible for the first S * 4 ticks of each
\* period and silent for the next S * 4, and tick 0 is audible.
C2_PhraseGatePeriodic ==
    probe.applied =>
        LET i == probe.pulse.absoluteSubdivisionIndex
            S == probe.pulse.subdivisionType
        IN /\ probe.audible <=> InAudibleHalf(i, S)
           /\ probe.audible <=> (i \div (S * 4)) % 2 = 0
           /\ i = 0 => probe.audible

C2_Witness ==
    /\ probe.applied
    /\ ~probe.audible
    /\ probe.pulse.subdivisionType = Sixteenth
    /\ probe.pulse.absoluteSubdivisionIndex = 31

\* C3: while playing, a tick triggers a click iff tickIndex mod subdivision
\* = 0, whatever the tick's audibility and the period state; clicks go on in
\* silent phrases.
C3_ClickEveryBeat ==
    (Ticked /\ tick.playing) =>
        LET p == tick.period
        IN /\ tick.clicks <= 1
           /\ tick.clicks = 1 <=> p.absoluteSubdivisionIndex % p.subdivisionType = 0

C3_Witness ==
    /\ Ticked
    /\ tick.playing
    /\ tick.clicks = 1
    /\ ~InAudibleHalf(tick.period.absoluteSubdivisionIndex, tick.period.subdivisionType)
    /\ tick.period.current.currPeriodIndex + 1 < tick.period.current.duration

C5_NoteIffAudibleBoundary ==
    (Ticked /\ tick.playing) =>
        LET p == tick.period
        IN tick.event # <<>> <=>
              /\ InAudibleHalf(p.absoluteSubdivisionIndex, p.subdivisionType)
              /\ tick.draws = 1
              /\ p.current.currPeriodIndex = 0

\* C6: for every tick of a clock lifetime, the first included, the tick is a
\* boundary tick iff position + 1 = duration held in the state the prior tick
\* left (for the first tick, the seed duration = 0, position = 0).
C6_BoundaryIffEqual ==
    [][tick'.kind = "tick" =>
         LET prior == streams[tick'.stream].note.current
         IN (tick'.draws = 1 /\ tick'.period.current.currPeriodIndex = 0)
               <=> prior.currPeriodIndex + 1 = prior.duration]_vars

\* C6 as amended: a tick after the first of a clock lifetime is a boundary
\* tick iff position + 1 = duration held in the state the prior tick left;
\* the first tick, from the seed, is always a boundary tick. On a tick that is
\* no boundary the duration stays and position goes up by one.
C6_BoundaryIffComplete ==
    [][tick'.kind = "tick" =>
         LET before == streams[tick'.stream]
             prior == before.note.current
             now == tick'.period.current
             boundary == tick'.draws = 1 /\ now.currPeriodIndex = 0
         IN /\ before.count = 0 => boundary
            /\ before.count > 0 =>
                 (boundary <=> prior.currPeriodIndex + 1 = prior.duration)
            /\ ~boundary =>
                 /\ now.duration = prior.duration
                 /\ now.currPeriodIndex = prior.currPeriodIndex + 1]_vars

C6_Witness ==
    /\ Ticked
    /\ tick.period.absoluteSubdivisionIndex = 5
    /\ tick.period.current.currPeriodIndex = 0
    /\ tick.draws = 1

\* C7: in every reachable state, playing or stopped, a noteSet or transpose
\* change neither cancels nor recreates the interval timer and leaves the
\* sequencer's tick index, duration and position unchanged.
C7_NoteChangeKeepsClock ==
    (step.kind = "deliver" /\ step.field \in {"notes", "transpose"}) =>
        /\ ~step.cancelled
        /\ ~step.started
        /\ step.after.timer # 0
        /\ step.after.count = step.before.count
        /\ step.after.note = step.before.note

\* C8: when tempo or subdivision changes while playing, the next tick handed
\* to the note and click consumers has index 0, the new subdivision, and is a
\* boundary tick with a duration drawn under the new bounds; no later tick
\* comes from the previous clock.
C8_RebuildStartsAtZero ==
    /\ (Ticked /\ tick.afterRebuild) =>
          \A s \in {Click, Note} :
             /\ Len(tick.seen[s]) = 1
             /\ LET p == tick.seen[s][1]
                IN /\ p.absoluteSubdivisionIndex = 0
                   /\ p.subdivisionType = dom.subdivision
                   /\ tick.draws = 1
                   /\ p.current.currPeriodIndex = 0
                   /\ p.current.duration \in 1..(2 * dom.subdivision - 1)
    /\ (Ticked /\ tick.playing) =>
          /\ tick.stream = Replay
          /\ streams[Replay].bpm = dom.bpm
          /\ \A s \in {Click, Note} :
                /\ Len(tick.seen[s]) = 1
                /\ tick.seen[s][1].subdivisionType = dom.subdivision

C8_Witness ==
    /\ Ticked
    /\ tick.afterRebuild
    /\ tick.seen[Note] # <<>>
    /\ tick.period.subdivisionType = Sixteenth
    /\ tick.period.current.duration = 5

\* C9: in every reachable state, the steps of a rebuild included, at most one
\* interval timer is alive: the previous clock is cancelled before the new one
\* is started.
C9_OneClock == Cardinality(Alive(streams)) <= 1

\* C10: while playing, on every tick the click consumer and the note consumer
\* observe the same Period value, made by one transition of one clock, with
\* one duration draw per boundary tick, also after settings changes.
C10_SamePeriodForBoth ==
    (Ticked /\ tick.playing) =>
        /\ tick.stream = Replay
        /\ tick.seen[Click] = <<tick.period>>
        /\ tick.seen[Note] = <<tick.period>>
        /\ tick.seen[Always] = <<tick.period>>
        /\ tick.draws = (IF tick.period.current.currPeriodIndex = 0 THEN 1 ELSE 0)
        /\ Alive(streams) = {tick.stream}

C10_Witness ==
    /\ Ticked
    /\ tick.playing
    /\ changes = 1
    /\ tick.draws = 1
    /\ tick.period.absoluteSubdivisionIndex = 3

\* C11: between a start and the following stop, whatever note, transpose,
\* tempo and subdivision changes come between the ticks, the previous of a
\* NoteEvent handed to the playing consumer is the current of the NoteEvent
\* handed to it before, and is absent on the first one only.
C11_PreviousIsLastCurrent ==
    (Ticked /\ tick.playing /\ tick.event # <<>>) =>
        tick.event[1].previous = tick.last

\* C12: while playing with a note set that is not empty, the current of every
\* NoteEvent is n + transpose for a note n of the note set, the note set and
\* the transpose being the values selected last before the tick.
C12_PitchFromLatestSelection ==
    (Ticked /\ tick.playing /\ tick.event # <<>> /\ dom.notes # {}) =>
        \E n \in dom.notes : tick.event[1].curr = Num(n + dom.transpose)

\* C13: a notes or transpose change while playing adds no NoteEvent and drops
\* none: the listener call leaves the clock and the pending period as they
\* were and hands no NoteEvent over, and on every tick the playing consumer
\* gets a NoteEvent iff the period alone says so.
C13_NoteChangeKeepsEvents ==
    /\ (step.kind = "deliver" /\ step.playing
            /\ step.field \in {"notes", "transpose"}) =>
          /\ ~step.cancelled
          /\ ~step.started
          /\ step.after.timer = step.before.timer
          /\ step.after.count = step.before.count
          /\ step.after.note = step.before.note
          /\ tick = NoTick
    /\ (Ticked /\ tick.playing) =>
          LET p == tick.period
          IN /\ Len(tick.event) <= 1
             /\ tick.event # <<>> <=>
                   /\ InAudibleHalf(p.absoluteSubdivisionIndex, p.subdivisionType)
                   /\ p.current.currPeriodIndex + 1 = p.current.duration

\* A NoteEvent handed over after a note or transpose change that came after
\* an earlier NoteEvent of the same play.
C13_Witness ==
    /\ Ticked
    /\ tick.playing
    /\ changes = 1
    /\ dom.bpm = DefaultBpm
    /\ dom.subdivision = Eighth
    /\ tick.event # <<>>
    /\ tick.last # Undefined
    /\ tick.event[1].previous = Undefined

\* C14: after stop() no interval timer is alive, and no tick is processed
\* until the next start().
C14_StopCancelsClock ==
    (~playing /\ audio /\ dispatch = <<>>) =>
        /\ Alive(streams) = {}
        /\ ~Ticked

\* C15: the first tick handed to the click and note consumers after a
\* start() has index 0 and is a boundary tick with a newly drawn duration.
C15_StartBeginsAtZero ==
    (Ticked /\ tick.afterStart) =>
        /\ tick.seen[Click] = <<tick.period>>
        /\ tick.seen[Note] = <<tick.period>>
        /\ tick.period.absoluteSubdivisionIndex = 0
        /\ tick.period.current.currPeriodIndex = 0
        /\ tick.draws = 1

\* C16: between a stop() and the next start() the click subscription and the
\* note subscription of start() are released, and no tick calls click() or
\* play(), whatever ticks and settings changes come in between.
C16_NoSoundWhileStopped ==
    /\ ~playing => (~subs[Click].active /\ ~subs[Note].active)
    /\ (Ticked /\ ~tick.playing) =>
          /\ tick.seen[Click] = <<>>
          /\ tick.seen[Note] = <<>>
          /\ tick.event = <<>>
          /\ tick.clicks = 0
          /\ tick.plays = <<>>

\* A beat on the boundary of an audible period, after a stop() and a settings
\* change.
C16_Witness ==
    /\ Ticked
    /\ ~tick.playing
    /\ audio
    /\ changes = 1
    /\ tick.emits[Always]
    /\ ClickFilter(tick.period)

\* C17: a tick calls click() at most once and play() at most once, and after
\* a stop() no period stream has a subscriber that start() made.
C17_NoDoubleFiring ==
    /\ Ticked => (tick.clicks <= 1 /\ Len(tick.plays) <= 1)
    /\ \A id \in 1..Len(streams) : \A s \in Subs :
          /\ Cardinality({k \in 1..Len(streams[id].observers) :
                             streams[id].observers[k] = s}) <= 1
          /\ (~playing /\ s # Always) => ~Observes(streams[id], s)

\* A click and a note on the first tick after a start() that came after a
\* settings change and found the clock running.
C17_Witness ==
    /\ Ticked
    /\ tick.afterStart
    /\ tick.period.absoluteSubdivisionIndex > 0
    /\ changes = 1
    /\ tick.clicks = 1
    /\ Len(tick.plays) = 1

\* C18: every NoteEvent played after a start() is drawn from the note set and
\* the transpose selected last, selections made before the first play or
\* while stopped included: the subscription of start() holds the selected
\* values.
C18_PlaysFromLatestSelection ==
    /\ (playing /\ dispatch = <<>>) =>
          /\ subs[Note].notes = dom.notes
          /\ subs[Note].transpose = dom.transpose
    /\ (Ticked /\ tick.playing) =>
          \A k \in 1..Len(tick.plays) :
             tick.plays[k] \in RandomNote(dom.notes, dom.transpose)

\* C19: with an empty note set no NoteEvent is produced, so that no NaN or
\* undefined pitch is the current of a NoteEvent.
C19_EmptySetNoEvent ==
    (Ticked /\ tick.playing) =>
        /\ subs[Note].notes = {} => tick.event = <<>>
        /\ \A k \in 1..Len(tick.event) : tick.event[k].curr.t = "number"

\* C20: no period stream is ever made with minDuration > maxDuration, and
\* every duration drawn is within the bounds of its stream: a settings change
\* that would put minDuration above maxDuration is rejected.
C20_NoInvertedBounds ==
    /\ \A id \in 1..Len(streams) :
          streams[id].minDuration <= streams[id].maxDuration
    /\ (Ticked /\ tick.draws = 1) =>
          /\ streams[tick.stream].minDuration <= tick.period.current.duration
          /\ tick.period.current.duration <= streams[tick.stream].maxDuration

\* The number a stored text stands for, and the default when the item is
\* absent or is no number.
StoredOrDefault(item, default) ==
    IF item # <<>> /\ item[1] \in {"0", "4", "120", "-60"}
    THEN Num(Numeral[item[1]])
    ELSE Num(default)

\* C21: loadSettings does not throw and gives, for tempo, subdivision,
\* transpose and the note set, the stored value when it is a number
\* (a JSON array for the note set) and the default when the item is absent
\* or corrupt.
C21_DefaultsForCorrupt ==
    probe.applied =>
        /\ ~probe.loaded.thrown
        /\ probe.loaded.bpm = StoredOrDefault(probe.items["bpm"], DefaultBpm)
        /\ probe.loaded.subdivision =
              StoredOrDefault(probe.items["subdivision"], Eighth)
        /\ probe.loaded.transpose =
              StoredOrDefault(probe.items["transpose"], DefaultTranspose)
        /\ probe.loaded.notes =
              (CASE probe.items["notes"] = <<"[60]">> -> Array({60})
                 [] probe.items["notes"] = <<"[]">> -> Array({})
                 [] OTHER -> Array(DefaultNotes))

\* The place of tick i in its phrase of subdivision * 4 ticks.
FirstOfPhrase(i, subdivision) == i % (subdivision * 4) = 0
LastOfPhrase(i, subdivision) == i % (subdivision * 4) = subdivision * 4 - 1

C23_FirstTickIsBoundary ==
    /\ (Ticked /\ tick.period.absoluteSubdivisionIndex = 0) =>
          /\ tick.isComplete
          /\ tick.draws = 1
          /\ tick.period.current.currPeriodIndex = 0
          /\ tick.period.current.duration >= streams[tick.stream].minDuration
          /\ tick.period.current.duration <= streams[tick.stream].maxDuration
    /\ Ticked =>
          \A s \in Subs : \A k \in 1..Len(tick.seen[s]) :
             tick.seen[s][k].current.duration >= 1
    /\ \A id \in 1..Len(streams) :
          (streams[id].timer # 0 /\ streams[id].count = 0) =>
             streams[id].note = Seed(streams[id].subdivisionType)

\* The first tick of the clock made by a subdivision change while stopped.
C23_Witness ==
    /\ Ticked
    /\ ~tick.playing
    /\ changes = 1
    /\ tick.period.absoluteSubdivisionIndex = 0
    /\ tick.period.subdivisionType = Quarter
    /\ tick.seen[Always] = <<tick.period>>

\* C24: tempo and subdivision changes made before the first play or while
\* stopped are kept: after the next start() the click and the note
\* subscription hold the clock made with the tempo and the subdivision
\* selected last, and every tick they get is one of that clock.
C24_StoppedChangesKept ==
    /\ (playing /\ dispatch = <<>>) =>
          /\ subs[Click].periodStream = Replay
          /\ subs[Note].periodStream = Replay
          /\ streams[Replay].bpm = dom.bpm
          /\ streams[Replay].subdivisionType = dom.subdivision
          /\ streams[Replay].maxDuration = 2 * dom.subdivision - 1
    /\ (Ticked /\ tick.playing) =>
          /\ streams[tick.stream].bpm = dom.bpm
          /\ tick.period.subdivisionType = dom.subdivision
          /\ tick.clicks =
                (IF tick.period.absoluteSubdivisionIndex % dom.subdivision = 0
                 THEN 1 ELSE 0)

\* The first tick after a start() that followed a change to Sixteenth made
\* while not playing.
C24_Witness ==
    /\ Ticked
    /\ tick.playing
    /\ tick.afterStart
    /\ ~tick.afterRebuild
    /\ dom.subdivision = Sixteenth
    /\ tick.period.absoluteSubdivisionIndex = 2
    /\ tick.clicks = 0

\* C25: within a clock's life a period drawn with duration d lasts d ticks:
\* from one tick to the next the position goes up by one with the duration
\* unchanged until it is d - 1, and the tick after that is a boundary tick
\* with position 0.
C25_PeriodLastsItsDuration ==
    [][\A id \in 1..Len(streams) :
          (Len(streams') = Len(streams)
              /\ streams'[id].count = streams[id].count + 1) =>
             LET a == streams[id].note.current
                 b == streams'[id].note.current
             IN IF streams[id].count = 0 \/ a.currPeriodIndex = a.duration - 1
                THEN /\ b.currPeriodIndex = 0
                     /\ b.duration \in 1..streams[id].maxDuration
                ELSE /\ b.currPeriodIndex = a.currPeriodIndex + 1
                     /\ b.currPeriodIndex <= a.duration - 1
                     /\ b.duration = a.duration]_vars

C25_Witness ==
    /\ Ticked
    /\ tick.period.absoluteSubdivisionIndex = 40
    /\ tick.period.current.duration = 7
    /\ tick.period.current.currPeriodIndex = 6

\* C26: while playing with a note set that is not empty and no settings
\* change, every audible phrase has a NoteEvent, for subdivisions 1, 2 and 4
\* and every sequence of draws.
C26_NoteInEveryAudiblePhrase ==
    (Ticked /\ tick.playing
        /\ InAudibleHalf(tick.period.absoluteSubdivisionIndex,
                         tick.period.subdivisionType)
        /\ LastOfPhrase(tick.period.absoluteSubdivisionIndex,
                        tick.period.subdivisionType)) =>
        probe.heard

\* The end of the second audible phrase of Sixteenth, on the last tick of a
\* period of 7 ticks.
C26_Witness ==
    /\ Ticked
    /\ tick.playing
    /\ tick.period.subdivisionType = Sixteenth
    /\ tick.period.absoluteSubdivisionIndex = 47
    /\ tick.period.current.duration = 7
    /\ tick.event # <<>>
    /\ probe.heard

\* C27: for subdivisions 1, 2 and 4 the first tick of every phrase, audible
\* or silent, is a click tick, and every phrase has exactly 4 click ticks.
C27_FourClicksPerPhrase ==
    (Ticked /\ tick.playing) =>
        LET i == tick.period.absoluteSubdivisionIndex
            S == tick.period.subdivisionType
        IN /\ FirstOfPhrase(i, S) => tick.clicks = 1
           /\ LastOfPhrase(i, S) => probe.clicks = 4
           /\ probe.clicks <= 4

C27_Witness ==
    /\ Ticked
    /\ tick.playing
    /\ tick.period.subdivisionType = Sixteenth
    /\ tick.period.absoluteSubdivisionIndex = 31
    /\ probe.clicks = 4
    /\ ~probe.heard

\* C28: while playing, every NoteEvent whose current is a number makes one
\* play() call for that pitch, whatever the note set and the transpose, a
\* pitch of 0 included.
C28_EveryPitchPlayed ==
    (Ticked /\ tick.playing /\ tick.event # <<>>
        /\ tick.event[1].curr.t = "number") =>
        tick.plays = <<tick.event[1].curr>>

====
